---- MODULE Spec2Model ----
(***************************************************************************)
(* Model of the fax.to API client of src/faxto.go.                         *)
(*                                                                         *)
(* Strings the code builds or rewrites (URL template, API key, recipient   *)
(* number, action path) are sequences of one-character strings, so that    *)
(* strings.ReplaceAll, fmt.Sprintf("%d") and the URL / query parsing act   *)
(* on characters.  Strings the code only compares or passes on (the status *)
(* field of a JSON envelope, operation names) are TLA+ strings.            *)
(*                                                                         *)
(* A call of an operation takes two steps: the operation's action builds   *)
(* the request and hands it to the HTTP client (or returns early), the     *)
(* matching ...Return action takes the transport's answer and runs the     *)
(* rest of the function to its return statement.  The '%' character is not *)
(* part of the alphabet of keys and numbers, so percent-decoding never     *)
(* applies; a nil slice and an empty slice are both the sequence << >>.    *)
(***************************************************************************)
EXTENDS Integers, Sequences, FiniteSets, TLC

VARIABLES
  client,      \* the Client value: baseUrl and httpClient
  apiKey,      \* the key NewClient was called with (history variable)
  calls,       \* caller -> the state of the caller's current invocation
  openBodies   \* number of response bodies received and not closed

vars == <<client, apiKey, calls, openBodies>>

----------------------------------------------------------------------------
(* Bounds *)

MaxLen == 2
MaxOpenBodies == 2
NumCallers == 2

----------------------------------------------------------------------------
(* Character strings *)

CTL == "\n"

rawBaseUrl ==
  <<"h","t","t","p","s",":","/","/","f","a","x",".","t","o","/","a","p","i",
    "/","v","2","$","a","c","t","i","o","n","$","?","a","p","i","_","k","e",
    "y","=","$","k","e","y","$">>

KeySlot == <<"$","k","e","y","$">>
ActionSlot == <<"$","a","c","t","i","o","n","$">>

DigitChars == <<"0","1","2","3","4","5","6","7","8","9">>

RECURSIVE UItoa(_)
UItoa(n) ==
  IF n < 10 THEN <<DigitChars[n + 1]>>
  ELSE UItoa(n \div 10) \o <<DigitChars[(n % 10) + 1]>>

\* fmt.Sprintf("%d", n)
Itoa(n) == IF n < 0 THEN <<"-">> \o UItoa(0 - n) ELSE UItoa(n)

HasPrefixAt(s, i, old) ==
  /\ i + Len(old) - 1 <= Len(s)
  /\ \A j \in 1..Len(old) : s[i + j - 1] = old[j]

RECURSIVE ReplaceFrom(_, _, _, _)
ReplaceFrom(s, i, old, new) ==
  IF i > Len(s) THEN << >>
  ELSE IF HasPrefixAt(s, i, old)
       THEN new \o ReplaceFrom(s, i + Len(old), old, new)
       ELSE <<s[i]>> \o ReplaceFrom(s, i + 1, old, new)

\* strings.ReplaceAll for a non-empty old: leftmost, non-overlapping matches
ReplaceAll(s, old, new) == ReplaceFrom(s, 1, old, new)

Contains(s, sub) == \E i \in 1..Len(s) : HasPrefixAt(s, i, sub)

\* index of the first occurrence of the character ch in s, 0 when absent
IndexOf(s, ch) ==
  IF \E i \in 1..Len(s) : s[i] = ch
  THEN CHOOSE i \in 1..Len(s) : s[i] = ch /\ \A j \in 1..(i - 1) : s[j] # ch
  ELSE 0

\* strings.Cut(s, ch)
CutBefore(s, ch) == IF IndexOf(s, ch) = 0 THEN s ELSE SubSeq(s, 1, IndexOf(s, ch) - 1)
CutAfter(s, ch) == IF IndexOf(s, ch) = 0 THEN << >> ELSE SubSeq(s, IndexOf(s, ch) + 1, Len(s))

RECURSIVE Split(_, _)
Split(s, ch) ==
  IF IndexOf(s, ch) = 0 THEN <<s>>
  ELSE <<CutBefore(s, ch)>> \o Split(CutAfter(s, ch), ch)

----------------------------------------------------------------------------
(* net/url as used by http.NewRequest and by the receiving server *)

\* url.Parse fails on a control character in the part before the fragment
NewRequestFails(u) == \E i \in 1..Len(CutBefore(u, "#")) : u[i] = CTL

UrlNoFragment(u) == CutBefore(u, "#")
UrlRawQuery(u) == CutAfter(UrlNoFragment(u), "?")
\* the path follows "https://" and the host
UrlPath(u) ==
  LET rest == CutBefore(UrlNoFragment(u), "?")
      afterScheme == SubSeq(rest, 9, Len(rest))
  IN  IF IndexOf(afterScheme, "/") = 0 THEN << >>
      ELSE SubSeq(afterScheme, IndexOf(afterScheme, "/"), Len(afterScheme))

\* url.QueryUnescape without percent escapes: '+' is a space
QueryUnescape(s) == [i \in 1..Len(s) |-> IF s[i] = "+" THEN " " ELSE s[i]]

\* url.ParseQuery: the sequence of <<name, value>> pairs in order
ParseQuery(q) ==
  LET parts == SelectSeq(Split(q, "&"), LAMBDA p : p # << >>)
  IN  [i \in 1..Len(parts) |->
         <<QueryUnescape(CutBefore(parts[i], "=")), QueryUnescape(CutAfter(parts[i], "="))>>]

QueryNames(q) == {ParseQuery(q)[i][1] : i \in 1..Len(ParseQuery(q))}

\* url.Values.Get: the first value of the name, "" when absent
QueryGet(q, name) ==
  LET pq == ParseQuery(q)
      idx == {i \in 1..Len(pq) : pq[i][1] = name}
  IN  IF idx = {} THEN << >>
      ELSE pq[CHOOSE i \in idx : \A j \in idx : i <= j][2]

----------------------------------------------------------------------------
(* Inputs *)

Keys ==
  { <<"k","1">>, <<"k",CTL>>, <<"a","&","b">>, <<"a","#","b">>,
    KeySlot, <<"k">> \o ActionSlot }

PlainKeys == { <<"k","1">> }

Numbers ==
  { <<"1","2">>, <<"+","1">>, <<"1","&","x","=","2">>, <<"1","#","2">> }

FileIds == {0, 12}
JobIds == {-1, 5}

\* the local file system UploadFile reads: path -> readable?, content
Files == {"missing.pdf", "empty.pdf", "fax.pdf"}

ReadFile(file) ==
  CASE file = "missing.pdf" -> [err |-> TRUE, content |-> << >>]
    [] file = "empty.pdf" -> [err |-> FALSE, content |-> << >>]
    [] OTHER -> [err |-> FALSE, content |-> <<37, 80, 68, 70>>]

----------------------------------------------------------------------------
(* Response bodies: JSON documents by their value, or bytes that are not   *)
(* JSON.  An element of an array is an object with an id.                  *)

Entries == {[id |-> 1], [id |-> 2]}

Arrays == UNION {[1..n -> Entries] : n \in 0..MaxLen}

Statuses == {"success", "error", "Success"}

InvalidJson == [kind |-> "invalid"]
JsonNull == [kind |-> "null"]
JsonArray(a) == [kind |-> "array", elems |-> a]
\* {"status": st, "balance": 12, "cost": 3, "document_id": 5, "history": h}
Envelope(st, h) ==
  [kind |-> "object",
   fields |-> [status |-> st, balance |-> 12, cost |-> 3, document_id |-> 5, history |-> h]]
\* {"message": "ok"}: an object with none of the fields the client reads
BareObject == [kind |-> "object", fields |-> [message |-> "ok"]]

Bodies ==
  {InvalidJson, JsonNull, BareObject}
    \cup {Envelope(st, h) : st \in Statuses, h \in Arrays}
    \cup {JsonArray(a) : a \in Arrays}

Codes == {200, 399, 400, 500}

TransportFailure == [kind |-> "error"]
HttpResponse(code, body) == [kind |-> "response", code |-> code, body |-> body]

Responses ==
  {TransportFailure} \cup {HttpResponse(code, body) : code \in Codes, body \in Bodies}

\* the answers drawn when several callers run concurrently
SmallResponses ==
  { TransportFailure,
    HttpResponse(200, Envelope("success", <<[id |-> 2], [id |-> 1]>>)),
    HttpResponse(500, Envelope("success", << >>)),
    HttpResponse(200, JsonArray(<<[id |-> 1]>>)) }

----------------------------------------------------------------------------
(* encoding/json decoding into the client's types *)

Field(obj, name, zero) ==
  IF name \in DOMAIN obj.fields THEN obj.fields[name] ELSE zero

\* one array element into a FaxHistoryEntry / File
DecodeEntry(e) == [Id |-> e.id]

\* variant: the elements come out in reverse order
DecodeList_Reversed(a) == [i \in 1..Len(a) |-> DecodeEntry(a[Len(a) + 1 - i])]

DecodeList(a) == [i \in 1..Len(a) |-> DecodeEntry(a[i])]

\* Decode into a struct: a JSON object fills the fields it has, null leaves
\* the zero struct, anything else is an error.
DecodeStruct(body) ==
  CASE body.kind = "object" ->
         [err |-> FALSE,
          Status |-> Field(body, "status", ""),
          Balance |-> Field(body, "balance", 0),
          Cost |-> Field(body, "cost", 0),
          DocumentId |-> Field(body, "document_id", 0),
          History |-> DecodeList(Field(body, "history", << >>))]
    [] body.kind = "null" ->
         [err |-> FALSE, Status |-> "", Balance |-> 0, Cost |-> 0,
          DocumentId |-> 0, History |-> << >>]
    [] OTHER ->
         [err |-> TRUE, Status |-> "", Balance |-> 0, Cost |-> 0,
          DocumentId |-> 0, History |-> << >>]

\* Decode into []File
DecodeFiles(body) ==
  CASE body.kind = "array" -> [err |-> FALSE, files |-> DecodeList(body.elems)]
    [] body.kind = "null" -> [err |-> FALSE, files |-> << >>]
    [] OTHER -> [err |-> TRUE, files |-> << >>]

----------------------------------------------------------------------------
(* Errors and returned values *)

NoError == [kind |-> "nil", code |-> 0, status |-> ""]
\* the error of ioutil.ReadFile
FileReadError == [kind |-> "file", code |-> 0, status |-> ""]
\* the error of http.NewRequest (malformed request)
RequestError == [kind |-> "request", code |-> 0, status |-> ""]
\* the error of httpClient.Do / PostForm (connection, DNS, timeout)
TransportError == [kind |-> "transport", code |-> 0, status |-> ""]
\* fmt.Errorf("expected status < 400, got %d", code)
HttpStatusError(code) == [kind |-> "http_status", code |-> code, status |-> ""]
\* fmt.Errorf("expected status 'success', got '%s'", status)
RemoteStatusError(st) == [kind |-> "remote_status", code |-> 0, status |-> st]
\* the error of json Decode
DecodeError == [kind |-> "decode", code |-> 0, status |-> ""]

Void == "void"

EnvelopeChecked == {"GetBalance", "GetFaxHistory", "UploadFile"}
Operations ==
  {"SendFax", "GetBalance", "GetFaxCost", "GetFaxStatus", "GetFaxHistory",
   "UploadFile", "GetFiles", "DeleteFile"}

\* the value every error return of the operation carries
ZeroValue(op) ==
  CASE op \in {"GetBalance", "GetFaxCost", "UploadFile"} -> 0
    [] op = "GetFaxStatus" -> ""
    [] op \in {"GetFaxHistory", "GetFiles"} -> << >>
    [] OTHER -> Void

Ret(val, err, decoded, closed) ==
  [val |-> val, err |-> err, decoded |-> decoded, closed |-> closed]

----------------------------------------------------------------------------
(* The part of each operation that follows the HTTP exchange.  resp is the *)
(* transport's answer; decoded tells whether the body was handed to the    *)
(* JSON decoder, closed whether resp.Body.Close ran.                       *)

SendFaxOutcome(resp) ==
  IF resp.kind = "error" THEN Ret(Void, TransportError, FALSE, FALSE)
  ELSE IF resp.code >= 400 THEN Ret(Void, HttpStatusError(resp.code), FALSE, FALSE)
  ELSE Ret(Void, NoError, FALSE, FALSE)

\* variant: the status test lets code 400 through
GetBalanceOutcome_Above400(resp) ==
  IF resp.kind = "error" THEN Ret(0, TransportError, FALSE, FALSE)
  ELSE IF resp.code > 400 THEN Ret(0, HttpStatusError(resp.code), FALSE, TRUE)
  ELSE LET b == DecodeStruct(resp.body)
       IN  IF b.err THEN Ret(0, DecodeError, TRUE, TRUE)
           ELSE IF b.Status # "success" THEN Ret(0, RemoteStatusError(b.Status), TRUE, TRUE)
           ELSE Ret(b.Balance, NoError, TRUE, TRUE)

GetBalanceOutcome(resp) ==
  IF resp.kind = "error" THEN Ret(0, TransportError, FALSE, FALSE)
  ELSE IF resp.code >= 400 THEN Ret(0, HttpStatusError(resp.code), FALSE, TRUE)
  ELSE LET b == DecodeStruct(resp.body)
       IN  IF b.err THEN Ret(0, DecodeError, TRUE, TRUE)
           ELSE IF b.Status # "success" THEN Ret(0, RemoteStatusError(b.Status), TRUE, TRUE)
           ELSE Ret(b.Balance, NoError, TRUE, TRUE)

GetFaxCostOutcome(resp) ==
  IF resp.kind = "error" THEN Ret(0, TransportError, FALSE, FALSE)
  ELSE IF resp.code >= 400 THEN Ret(0, HttpStatusError(resp.code), FALSE, TRUE)
  ELSE LET cost == DecodeStruct(resp.body)
       IN  IF cost.err THEN Ret(0, DecodeError, TRUE, TRUE)
           ELSE Ret(cost.Cost, NoError, TRUE, TRUE)

\* variant: the envelope status is checked as in GetBalance
GetFaxStatusOutcome_Checked(resp) ==
  IF resp.kind = "error" THEN Ret("", TransportError, FALSE, FALSE)
  ELSE IF resp.code >= 400 THEN Ret("", HttpStatusError(resp.code), FALSE, TRUE)
  ELSE LET fs == DecodeStruct(resp.body)
       IN  IF fs.err THEN Ret("", DecodeError, TRUE, TRUE)
           ELSE IF fs.Status # "success" THEN Ret("", RemoteStatusError(fs.Status), TRUE, TRUE)
           ELSE Ret(fs.Status, NoError, TRUE, TRUE)

GetFaxStatusOutcome(resp) ==
  IF resp.kind = "error" THEN Ret("", TransportError, FALSE, FALSE)
  ELSE IF resp.code >= 400 THEN Ret("", HttpStatusError(resp.code), FALSE, TRUE)
  ELSE LET fs == DecodeStruct(resp.body)
       IN  IF fs.err THEN Ret("", DecodeError, TRUE, TRUE)
           ELSE Ret(fs.Status, NoError, TRUE, TRUE)

\* variant: the decoded history is returned along with the status error
GetFaxHistoryOutcome_Partial(resp) ==
  IF resp.kind = "error" THEN Ret(<< >>, TransportError, FALSE, FALSE)
  ELSE IF resp.code >= 400 THEN Ret(<< >>, HttpStatusError(resp.code), FALSE, TRUE)
  ELSE LET fh == DecodeStruct(resp.body)
       IN  IF fh.err THEN Ret(<< >>, DecodeError, TRUE, TRUE)
           ELSE IF fh.Status # "success"
                THEN Ret(fh.History, RemoteStatusError(fh.Status), TRUE, TRUE)
           ELSE Ret(fh.History, NoError, TRUE, TRUE)

GetFaxHistoryOutcome(resp) ==
  IF resp.kind = "error" THEN Ret(<< >>, TransportError, FALSE, FALSE)
  ELSE IF resp.code >= 400 THEN Ret(<< >>, HttpStatusError(resp.code), FALSE, TRUE)
  ELSE LET fh == DecodeStruct(resp.body)
       IN  IF fh.err THEN Ret(<< >>, DecodeError, TRUE, TRUE)
           ELSE IF fh.Status # "success" THEN Ret(<< >>, RemoteStatusError(fh.Status), TRUE, TRUE)
           ELSE Ret(fh.History, NoError, TRUE, TRUE)

\* variant: the envelope status is not checked
UploadFileOutcome_Unchecked(resp) ==
  IF resp.kind = "error" THEN Ret(0, TransportError, FALSE, FALSE)
  ELSE IF resp.code >= 400 THEN Ret(0, HttpStatusError(resp.code), FALSE, TRUE)
  ELSE LET fu == DecodeStruct(resp.body)
       IN  IF fu.err THEN Ret(0, DecodeError, TRUE, TRUE)
           ELSE Ret(fu.DocumentId, NoError, TRUE, TRUE)

UploadFileOutcome(resp) ==
  IF resp.kind = "error" THEN Ret(0, TransportError, FALSE, FALSE)
  ELSE IF resp.code >= 400 THEN Ret(0, HttpStatusError(resp.code), FALSE, TRUE)
  ELSE LET fu == DecodeStruct(resp.body)
       IN  IF fu.err THEN Ret(0, DecodeError, TRUE, TRUE)
           ELSE IF fu.Status # "success" THEN Ret(0, RemoteStatusError(fu.Status), TRUE, TRUE)
           ELSE Ret(fu.DocumentId, NoError, TRUE, TRUE)

GetFilesOutcome(resp) ==
  IF resp.kind = "error" THEN Ret(<< >>, TransportError, FALSE, FALSE)
  ELSE IF resp.code >= 400 THEN Ret(<< >>, HttpStatusError(resp.code), FALSE, TRUE)
  ELSE LET d == DecodeFiles(resp.body)
       IN  IF d.err THEN Ret(<< >>, DecodeError, TRUE, TRUE)
           ELSE Ret(d.files, NoError, TRUE, TRUE)

DeleteFileOutcome(resp) ==
  IF resp.kind = "error" THEN Ret(Void, TransportError, FALSE, FALSE)
  ELSE IF resp.code >= 400 THEN Ret(Void, HttpStatusError(resp.code), FALSE, TRUE)
  ELSE Ret(Void, NoError, FALSE, TRUE)

----------------------------------------------------------------------------
(* The client and the request half of each operation *)

HttpTimeoutSeconds == 10

NewClient(key) ==
  [baseUrl |-> ReplaceAll(rawBaseUrl, KeySlot, key),
   httpClient |-> [Timeout |-> HttpTimeoutSeconds]]

PathFax == <<"/","f","a","x">>
PathBalance == <<"/","b","a","l","a","n","c","e">>
PathFaxHistory == <<"/","f","a","x","-","h","i","s","t","o","r","y">>
PathFiles == <<"/","f","i","l","e","s">>
\* fmt.Sprintf("/fax/%d/costs", docId)
PathFaxCosts(docId) == <<"/","f","a","x","/">> \o Itoa(docId) \o <<"/","c","o","s","t","s">>
\* fmt.Sprintf("/fax/%d/status", faxJobId)
PathFaxStatus(faxJobId) == <<"/","f","a","x","/">> \o Itoa(faxJobId) \o <<"/","s","t","a","t","u","s">>
\* fmt.Sprintf("/files/%d", fileId)
PathFile(fileId) == <<"/","f","i","l","e","s","/">> \o Itoa(fileId)
FaxNumberParam == <<"&","f","a","x","_","n","u","m","b","e","r","=">>

IdleCall ==
  [pc |-> "idle", op |-> "none", number |-> << >>, id |-> 0, file |-> "",
   method |-> "", url |-> << >>, payload |-> << >>, sent |-> 0,
   resp |-> [kind |-> "none"], decoded |-> FALSE, bodyOpen |-> FALSE,
   val |-> Void, err |-> NoError]

\* the invocation returns err before any request is handed to the transport
ReturnEarly(c, call, err) ==
  calls' = [calls EXCEPT ![c] =
              [call EXCEPT !.pc = "done", !.err = err, !.val = ZeroValue(call.op)]]

\* http.NewRequest followed by httpClient.Do (or PostForm, which does both):
\* a URL that does not parse ends the call, otherwise one request goes out
\* and the caller waits for the answer.
IssueRequest(c, call, method, u, payload) ==
  IF NewRequestFails(u)
  THEN ReturnEarly(c, [call EXCEPT !.method = method, !.url = u], RequestError)
  ELSE calls' = [calls EXCEPT ![c] =
                   [call EXCEPT !.pc = "waiting", !.method = method, !.url = u,
                                !.payload = payload, !.sent = call.sent + 1]]

\* the rest of the function after the exchange
Complete(c, op, resp, out) ==
  /\ calls[c].pc = "waiting"
  /\ calls[c].op = op
  /\ resp.kind = "response" => openBodies < MaxOpenBodies
  /\ calls' = [calls EXCEPT ![c] =
                 [@ EXCEPT !.pc = "done", !.resp = resp, !.val = out.val,
                           !.err = out.err, !.decoded = out.decoded,
                           !.bodyOpen = (resp.kind = "response" /\ ~out.closed)]]
  /\ openBodies' = IF resp.kind = "response" /\ ~out.closed
                   THEN openBodies + 1 ELSE openBodies
  /\ UNCHANGED <<client, apiKey>>

SendFax(c, number, fileId) ==
  /\ calls[c].pc = "idle"
  /\ IssueRequest(c, [IdleCall EXCEPT !.op = "SendFax", !.number = number, !.id = fileId],
                  "POST", ReplaceAll(client.baseUrl, ActionSlot, PathFax),
                  <<number, Itoa(fileId)>>)
  /\ UNCHANGED <<client, apiKey, openBodies>>

SendFaxReturn(c, resp) == Complete(c, "SendFax", resp, SendFaxOutcome(resp))

\* variant: the substituted URL is stored back into the client
GetBalance_StoresUrl(c) ==
  /\ calls[c].pc = "idle"
  /\ IssueRequest(c, [IdleCall EXCEPT !.op = "GetBalance"],
                  "GET", ReplaceAll(client.baseUrl, ActionSlot, PathBalance), << >>)
  /\ client' = [client EXCEPT !.baseUrl = ReplaceAll(client.baseUrl, ActionSlot, PathBalance)]
  /\ UNCHANGED <<apiKey, openBodies>>

GetBalance(c) ==
  /\ calls[c].pc = "idle"
  /\ IssueRequest(c, [IdleCall EXCEPT !.op = "GetBalance"],
                  "GET", ReplaceAll(client.baseUrl, ActionSlot, PathBalance), << >>)
  /\ UNCHANGED <<client, apiKey, openBodies>>

GetBalanceReturn(c, resp) == Complete(c, "GetBalance", resp, GetBalanceOutcome(resp))

GetFaxCost(c, number, docId) ==
  /\ calls[c].pc = "idle"
  /\ IssueRequest(c, [IdleCall EXCEPT !.op = "GetFaxCost", !.number = number, !.id = docId],
                  "GET",
                  ReplaceAll(client.baseUrl, ActionSlot, PathFaxCosts(docId))
                    \o FaxNumberParam \o number,
                  << >>)
  /\ UNCHANGED <<client, apiKey, openBodies>>

GetFaxCostReturn(c, resp) == Complete(c, "GetFaxCost", resp, GetFaxCostOutcome(resp))

GetFaxStatus(c, faxJobId) ==
  /\ calls[c].pc = "idle"
  /\ IssueRequest(c, [IdleCall EXCEPT !.op = "GetFaxStatus", !.id = faxJobId],
                  "GET", ReplaceAll(client.baseUrl, ActionSlot, PathFaxStatus(faxJobId)),
                  << >>)
  /\ UNCHANGED <<client, apiKey, openBodies>>

GetFaxStatusReturn(c, resp) == Complete(c, "GetFaxStatus", resp, GetFaxStatusOutcome(resp))

GetFaxHistory(c) ==
  /\ calls[c].pc = "idle"
  /\ IssueRequest(c, [IdleCall EXCEPT !.op = "GetFaxHistory"],
                  "GET", ReplaceAll(client.baseUrl, ActionSlot, PathFaxHistory), << >>)
  /\ UNCHANGED <<client, apiKey, openBodies>>

GetFaxHistoryReturn(c, resp) == Complete(c, "GetFaxHistory", resp, GetFaxHistoryOutcome(resp))

\* variant: the read error is ignored and the request goes out without content
UploadFile_IgnoreReadError(c, file) ==
  /\ calls[c].pc = "idle"
  /\ IssueRequest(c, [IdleCall EXCEPT !.op = "UploadFile", !.file = file], "POST",
                  ReplaceAll(client.baseUrl, ActionSlot, PathFiles), ReadFile(file).content)
  /\ UNCHANGED <<client, apiKey, openBodies>>

UploadFile(c, file) ==
  /\ calls[c].pc = "idle"
  /\ LET call == [IdleCall EXCEPT !.op = "UploadFile", !.file = file]
         rd == ReadFile(file)
     IN  IF rd.err
         THEN ReturnEarly(c, call, FileReadError)
         ELSE IssueRequest(c, call, "POST",
                           ReplaceAll(client.baseUrl, ActionSlot, PathFiles), rd.content)
  /\ UNCHANGED <<client, apiKey, openBodies>>

UploadFileReturn(c, resp) == Complete(c, "UploadFile", resp, UploadFileOutcome(resp))

GetFiles(c) ==
  /\ calls[c].pc = "idle"
  /\ IssueRequest(c, [IdleCall EXCEPT !.op = "GetFiles"],
                  "GET", ReplaceAll(client.baseUrl, ActionSlot, PathFiles), << >>)
  /\ UNCHANGED <<client, apiKey, openBodies>>

GetFilesReturn(c, resp) == Complete(c, "GetFiles", resp, GetFilesOutcome(resp))

DeleteFile(c, fileId) ==
  /\ calls[c].pc = "idle"
  /\ IssueRequest(c, [IdleCall EXCEPT !.op = "DeleteFile", !.id = fileId],
                  "DELETE", ReplaceAll(client.baseUrl, ActionSlot, PathFile(fileId)), << >>)
  /\ UNCHANGED <<client, apiKey, openBodies>>

DeleteFileReturn(c, resp) == Complete(c, "DeleteFile", resp, DeleteFileOutcome(resp))

\* the caller has taken the result and is free to call again
Reset(c) ==
  /\ calls[c].pc = "done"
  /\ calls' = [calls EXCEPT ![c] = IdleCall]
  /\ UNCHANGED <<client, apiKey, openBodies>>

----------------------------------------------------------------------------
(* One caller, all inputs and answers *)

Init ==
  /\ apiKey \in Keys
  /\ client = NewClient(apiKey)
  /\ calls = [c \in {1} |-> IdleCall]
  /\ openBodies = 0

Next ==
  \E c \in DOMAIN calls :
    \/ \E number \in Numbers, fileId \in FileIds : SendFax(c, number, fileId)
    \/ GetBalance(c)
    \/ \E number \in Numbers, docId \in FileIds : GetFaxCost(c, number, docId)
    \/ \E faxJobId \in JobIds : GetFaxStatus(c, faxJobId)
    \/ GetFaxHistory(c)
    \/ \E file \in Files : UploadFile(c, file)
    \/ GetFiles(c)
    \/ \E fileId \in FileIds : DeleteFile(c, fileId)
    \/ \E resp \in Responses : SendFaxReturn(c, resp)
    \/ \E resp \in Responses : GetBalanceReturn(c, resp)
    \/ \E resp \in Responses : GetFaxCostReturn(c, resp)
    \/ \E resp \in Responses : GetFaxStatusReturn(c, resp)
    \/ \E resp \in Responses : GetFaxHistoryReturn(c, resp)
    \/ \E resp \in Responses : UploadFileReturn(c, resp)
    \/ \E resp \in Responses : GetFilesReturn(c, resp)
    \/ \E resp \in Responses : DeleteFileReturn(c, resp)
    \/ Reset(c)

Spec == Init /\ [][Next]_vars

(* Several callers sharing one client *)

ConcKeys == { <<"k","1">>, <<"a","&","b">> }
ConcNumbers == { <<"1","2">> }
ConcIds == {5}
ConcFiles == {"missing.pdf", "fax.pdf"}

InitConc ==
  /\ apiKey \in ConcKeys
  /\ client = NewClient(apiKey)
  /\ calls = [c \in 1..NumCallers |-> IdleCall]
  /\ openBodies = 0

NextConc ==
  \E c \in DOMAIN calls :
    \/ \E number \in ConcNumbers, fileId \in ConcIds : SendFax(c, number, fileId)
    \/ GetBalance(c)
    \/ \E number \in ConcNumbers, docId \in ConcIds : GetFaxCost(c, number, docId)
    \/ \E faxJobId \in ConcIds : GetFaxStatus(c, faxJobId)
    \/ GetFaxHistory(c)
    \/ \E file \in ConcFiles : UploadFile(c, file)
    \/ GetFiles(c)
    \/ \E fileId \in ConcIds : DeleteFile(c, fileId)
    \/ \E resp \in SmallResponses : SendFaxReturn(c, resp)
    \/ \E resp \in SmallResponses : GetBalanceReturn(c, resp)
    \/ \E resp \in SmallResponses : GetFaxCostReturn(c, resp)
    \/ \E resp \in SmallResponses : GetFaxStatusReturn(c, resp)
    \/ \E resp \in SmallResponses : GetFaxHistoryReturn(c, resp)
    \/ \E resp \in SmallResponses : UploadFileReturn(c, resp)
    \/ \E resp \in SmallResponses : GetFilesReturn(c, resp)
    \/ \E resp \in SmallResponses : DeleteFileReturn(c, resp)
    \/ Reset(c)

SpecConc == InitConc /\ [][NextConc]_vars

----------------------------------------------------------------------------
(* Properties *)

Callers == DOMAIN calls
Done(c) == calls[c].pc = "done"
Answered(c) == calls[c].resp.kind = "response"
Accepted(c) == Done(c) /\ Answered(c) /\ calls[c].resp.code < 400

\* the status field of a JSON body as the server wrote it ("" when absent)
BodyStatus(body) ==
  IF body.kind = "object" /\ "status" \in DOMAIN body.fields THEN body.fields.status ELSE ""
BodyField(body, name) ==
  IF body.kind = "object" /\ name \in DOMAIN body.fields THEN body.fields[name] ELSE 0
DecodesAsStruct(body) == body.kind \in {"object", "null"}

\* C1: an answer with HTTP status >= 400 makes the call fail with the
\* status-code error carrying that code, whatever the body; the body is not
\* decoded on that path.
C1_HttpStatusFails ==
  \A c \in Callers :
    (Done(c) /\ Answered(c) /\ calls[c].resp.code >= 400) =>
      /\ calls[c].err = HttpStatusError(calls[c].resp.code)
      /\ ~calls[c].decoded

C1_Witness ==
  \E c \in Callers :
    /\ Done(c) /\ calls[c].op = "GetBalance"
    /\ calls[c].resp = HttpResponse(400, Envelope("success", << >>))
    /\ calls[c].err = HttpStatusError(400)

\* C2: GetBalance, GetFaxHistory and UploadFile, on an answer below 400 whose
\* body decodes, succeed exactly when the envelope status is "success";
\* otherwise they fail with the remote-status error carrying the status, and
\* on success they return balance, history and document_id.
C2_EnvelopeStatusDecides ==
  \A c \in Callers :
    (Accepted(c) /\ calls[c].op \in EnvelopeChecked /\ DecodesAsStruct(calls[c].resp.body)) =>
      LET body == calls[c].resp.body
      IN  /\ (calls[c].err = NoError) <=> (BodyStatus(body) = "success")
          /\ BodyStatus(body) # "success" =>
               calls[c].err = RemoteStatusError(BodyStatus(body))
          /\ BodyStatus(body) = "success" =>
               CASE calls[c].op = "GetBalance" -> calls[c].val = BodyField(body, "balance")
                 [] calls[c].op = "UploadFile" -> calls[c].val = BodyField(body, "document_id")
                 [] OTHER -> Len(calls[c].val) = Len(body.fields.history)

C2_Witness ==
  \E c \in Callers :
    /\ Done(c) /\ calls[c].op = "UploadFile"
    /\ calls[c].resp.kind = "response" /\ calls[c].resp.code = 200
    /\ calls[c].resp.body.kind = "object"
    /\ BodyStatus(calls[c].resp.body) = "Success"
    /\ calls[c].err = RemoteStatusError("Success")

\* C3: GetFaxCost, GetFaxStatus, GetFiles, SendFax and DeleteFile never look
\* at an envelope status: below 400 with a decodable body GetFaxCost returns
\* the cost and GetFaxStatus the status string whatever it is, and SendFax
\* and DeleteFile succeed with no value for every body.
C3_NoEnvelopeCheck ==
  \A c \in Callers :
    Accepted(c) =>
      LET body == calls[c].resp.body
      IN  /\ (calls[c].op = "GetFaxCost" /\ DecodesAsStruct(body)) =>
               calls[c].err = NoError /\ calls[c].val = BodyField(body, "cost")
          /\ (calls[c].op = "GetFaxStatus" /\ DecodesAsStruct(body)) =>
               calls[c].err = NoError /\ calls[c].val = BodyStatus(body)
          /\ (calls[c].op = "GetFiles" /\ body.kind = "array") =>
               calls[c].err = NoError
          /\ calls[c].op \in {"SendFax", "DeleteFile"} =>
               calls[c].err = NoError /\ calls[c].val = Void /\ ~calls[c].decoded

C3_Witness ==
  \E c \in Callers :
    /\ Accepted(c) /\ calls[c].op = "GetFaxStatus"
    /\ BodyStatus(calls[c].resp.body) = "error"
    /\ calls[c].err = NoError /\ calls[c].val = "error"

Returned(c) == Done(c)
FileUnreadable(c) == calls[c].op = "UploadFile" /\ ReadFile(calls[c].file).err
UrlRejected(c) == calls[c].url # << >> /\ NewRequestFails(calls[c].url)

\* C4 as stated: every invocation has issued exactly one HTTP request when it
\* returns, also when the local file cannot be read or the request cannot be
\* constructed.
C4_ExactlyOneRequest ==
  \A c \in Callers : Returned(c) => calls[c].sent = 1

\* C4 amended: an invocation hands at most one request to the HTTP client;
\* it hands over none exactly when UploadFile cannot read its file or the
\* request cannot be constructed, and exactly one in every other case.
C4_AtMostOneRequest ==
  \A c \in Callers :
    /\ calls[c].sent <= 1
    /\ calls[c].pc = "waiting" => calls[c].sent = 1
    /\ Returned(c) =>
         ((calls[c].sent = 0) <=> (FileUnreadable(c) \/ UrlRejected(c)))

C4_Witness ==
  \E c \in Callers :
    /\ Returned(c) /\ calls[c].op = "UploadFile" /\ calls[c].file = "missing.pdf"
    /\ calls[c].sent = 0 /\ calls[c].err = FileReadError

\* the four error kinds of the specification; a request that cannot be
\* constructed is a malformed request, hence a TransportError
SpecifiedErrorKinds == {"transport", "request", "http_status", "remote_status", "decode"}

\* C5 as stated: every invocation ends in success or in one of the four error
\* kinds, a failure to read the local file included, and a failing call
\* returns the zero value.
C5_FourErrorKinds ==
  \A c \in Callers :
    Returned(c) =>
      /\ calls[c].err.kind \in {"nil"} \cup SpecifiedErrorKinds
      /\ calls[c].err # NoError => calls[c].val = ZeroValue(calls[c].op)

\* C5 amended: every invocation ends in success, in one of the four error
\* kinds, or, for UploadFile whose local file cannot be read, in the file
\* read error returned before any request; a failing call returns the zero
\* value.
C5_ErrorKindsWithFileRead ==
  \A c \in Callers :
    Returned(c) =>
      /\ calls[c].err.kind \in {"nil", "file"} \cup SpecifiedErrorKinds
      /\ calls[c].err.kind = "file" <=> FileUnreadable(c)
      /\ calls[c].err.kind = "file" => calls[c].sent = 0
      /\ calls[c].err # NoError => calls[c].val = ZeroValue(calls[c].op)

C5_Witness ==
  \E c \in Callers :
    /\ Returned(c) /\ calls[c].op = "GetFaxHistory"
    /\ calls[c].resp = HttpResponse(200, Envelope("error", <<[id |-> 1]>>))
    /\ calls[c].err = RemoteStatusError("error")
    /\ calls[c].val = << >>

\* the template with both slots filled in place
UrlPrefix == SubSeq(rawBaseUrl, 1, 21)
KeyParam == SubSeq(rawBaseUrl, 30, 38)
FilledTemplate(action, key) == UrlPrefix \o action \o KeyParam \o key

ActionOf(call) ==
  CASE call.op = "SendFax" -> PathFax
    [] call.op = "GetBalance" -> PathBalance
    [] call.op = "GetFaxCost" -> PathFaxCosts(call.id)
    [] call.op = "GetFaxStatus" -> PathFaxStatus(call.id)
    [] call.op = "GetFaxHistory" -> PathFaxHistory
    [] call.op = "GetFiles" -> PathFiles
    [] call.op = "UploadFile" -> PathFiles
    [] OTHER -> PathFile(call.id)

ExpectedUrl(call, key) ==
  FilledTemplate(ActionOf(call), key)
    \o (IF call.op = "GetFaxCost" THEN FaxNumberParam \o call.number ELSE << >>)

HasPlaceholder(s) == Contains(s, KeySlot) \/ Contains(s, ActionSlot)

\* C6: the URL an operation requests is the template with the action path in
\* the action slot and the caller's key verbatim as the api_key value, for
\* every key, and no placeholder text is left in it.
C6_KeyVerbatim ==
  \A c \in Callers :
    calls[c].sent = 1 =>
      /\ calls[c].url = ExpectedUrl(calls[c], apiKey)
      /\ ~HasPlaceholder(apiKey) => ~HasPlaceholder(calls[c].url)

ApiKeyName == <<"a","p","i","_","k","e","y">>
FaxNumberName == <<"f","a","x","_","n","u","m","b","e","r">>

\* C7: GetFaxCost sends one GET to /api/v2/fax/{docId}/costs whose query has
\* fax_number equal to the caller's number and api_key equal to the client's
\* key, and no other parameter, whatever the number contains.
C7_FaxNumberParameter ==
  \A c \in Callers :
    (calls[c].op = "GetFaxCost" /\ calls[c].sent = 1 /\ apiKey \in PlainKeys) =>
      LET q == UrlRawQuery(calls[c].url)
      IN  /\ calls[c].method = "GET"
          /\ UrlPath(calls[c].url) = SubSeq(UrlPrefix, 15, 21) \o PathFaxCosts(calls[c].id)
          /\ QueryGet(q, FaxNumberName) = calls[c].number
          /\ QueryGet(q, ApiKeyName) = apiKey
          /\ QueryNames(q) = {ApiKeyName, FaxNumberName}

\* C8: GetFiles and GetFaxHistory return the array the server sent, element
\* for element in the same order and length; an empty array gives an empty
\* sequence and no error.
C8_SequenceAsReceived ==
  \A c \in Callers :
    Accepted(c) =>
      LET body == calls[c].resp.body
          same(a) == /\ calls[c].err = NoError
                     /\ Len(calls[c].val) = Len(a)
                     /\ \A i \in 1..Len(a) : calls[c].val[i].Id = a[i].id
      IN  /\ (calls[c].op = "GetFiles" /\ body.kind = "array") => same(body.elems)
          /\ (calls[c].op = "GetFaxHistory" /\ body.kind = "object"
                /\ BodyStatus(body) = "success" /\ "history" \in DOMAIN body.fields) =>
               same(body.fields.history)

C8_Witness ==
  \E c \in Callers :
    /\ Accepted(c) /\ calls[c].op = "GetFiles"
    /\ calls[c].resp.body = JsonArray(<<[id |-> 2], [id |-> 1]>>)
    /\ calls[c].val = <<[Id |-> 2], [Id |-> 1]>>

OutcomeOf(op, resp) ==
  CASE op = "SendFax" -> SendFaxOutcome(resp)
    [] op = "GetBalance" -> GetBalanceOutcome(resp)
    [] op = "GetFaxCost" -> GetFaxCostOutcome(resp)
    [] op = "GetFaxStatus" -> GetFaxStatusOutcome(resp)
    [] op = "GetFaxHistory" -> GetFaxHistoryOutcome(resp)
    [] op = "UploadFile" -> UploadFileOutcome(resp)
    [] op = "GetFiles" -> GetFilesOutcome(resp)
    [] OTHER -> DeleteFileOutcome(resp)

\* C9: no operation changes the client, which stays as NewClient left it,
\* and under any interleaving of concurrent calls each call's request and
\* outcome are those of the call run alone on its own arguments and answer.
C9_CallsIndependent ==
  /\ client = NewClient(apiKey)
  /\ \A c \in Callers :
       /\ calls[c].url # << >> =>
            calls[c].url =
              ReplaceAll(NewClient(apiKey).baseUrl, ActionSlot, ActionOf(calls[c]))
                \o (IF calls[c].op = "GetFaxCost"
                    THEN FaxNumberParam \o calls[c].number ELSE << >>)
       /\ (Returned(c) /\ calls[c].sent = 1) =>
            /\ calls[c].val = OutcomeOf(calls[c].op, calls[c].resp).val
            /\ calls[c].err = OutcomeOf(calls[c].op, calls[c].resp).err

C9_Witness ==
  \E c, d \in Callers :
    /\ c # d
    /\ Returned(c) /\ calls[c].op = "GetBalance" /\ calls[c].err = NoError
    /\ calls[d].pc = "waiting" /\ calls[d].op = "GetFaxHistory"

\* C10: a response body received by an operation is closed by the time the
\* operation returns, on every return path of every operation, so no body is
\* left open after any sequence of calls.
C10_BodiesClosed ==
  /\ openBodies = 0
  /\ \A c \in Callers : Returned(c) => ~calls[c].bodyOpen

====
